---- MODULE Spec2Model ----
(***************************************************************************)
(* glass-chat-craft: the conversation transcript of a draft.               *)
(*                                                                         *)
(* Chat.fetchDraft (src/src/pages/Chat.tsx) loads a draft, its             *)
(* draft_versions rows (ordered by version) and its email_feedbacks rows   *)
(* and interleaves them into one list of messages.  This module models     *)
(* that message-history construction as the code computes it.              *)
(*                                                                         *)
(* Representation.  A created_at value is represented by the instant, in   *)
(* epoch milliseconds, that `new Date(created_at)` denotes: the code only  *)
(* ever compares created_at values through Date objects, so two rows have  *)
(* the same timestamp here exactly when their Date objects compare equal.  *)
(* `new Date()` (the clock read of line 206) returns an instant that no    *)
(* input determines.  The code reads it anew in every filter callback of   *)
(* the last version, one read per feedback row; the reads never go back,   *)
(* within a build or from one build to the next.                           *)
(*                                                                         *)
(* The versions reach the builder in the order of the draft_versions query *)
(* (.order('version'), lines 164-168).  The email_feedbacks query returns  *)
(* the feedbacks ordered by created_at (lines 169-173); the builder itself *)
(* is exercised on every order of them, since the construction of lines    *)
(* 182-220 takes whatever order it is given.                               *)
(* Row identifiers are strings; a JavaScript array index i is i+1 here.    *)
(* An optional field of a Message (isError?, feedbackId?) that the code    *)
(* does not set is absent from the record's DOMAIN.                        *)
(*                                                                         *)
(* Three more specifications follow the builder's.  Spec is the Chat view  *)
(* as a whole: its React state, its handlers, and the responses they       *)
(* await.  SpecHandler is the generation handler (src/unnamed/part_002)    *)
(* on the tables of src/unnamed/part_001, and SpecStorage adds the delete  *)
(* operations of Sidebar.tsx and Feedbacks.tsx.  Each specification holds  *)
(* the variables of the others at their initial values.                    *)
(***************************************************************************)
EXTENDS Integers, Sequences, FiniteSets, TLC

\* ------------------------------------------------------------- bounds
MaxVersions == 2        \* most draft_versions rows of the draft
MaxFeedbacks == 2       \* most email_feedbacks rows of the draft
MaxTime == 2            \* the rows' created_at instants are 0..MaxTime

\* The instants a created_at can denote.
Time == 0 .. MaxTime

\* The instants the clock can show: any of the rows' instants, or a later
\* one.  No feedback that lies after a version is earlier than instant 1, so
\* a clock that shows 0 rejects what a clock that shows 1 rejects.
ClockTime == 1 .. MaxTime + 1

\* ------------------------------------------------------ rows and inputs
\* interface DraftVersion: the i-th row returned by the draft_versions query.
DraftVersion(i, t) ==
    [id |-> "v" \o ToString(i), version |-> i,
     content |-> "Draft " \o ToString(i), created_at |-> t]

\* interface Feedback: a row of email_feedbacks.
Feedback(i, t, valid) ==
    [id |-> "f" \o ToString(i), feedback_text |-> "feedback " \o ToString(i),
     is_valid |-> valid, created_at |-> t]

\* draftData.user_input, the original request text of the draft.
UserInputs == {"Write a launch email"}

\* Every list of at most MaxVersions version rows in ascending version
\* order; WellFormed tells those whose created_at increase with the version.
VersionLists ==
    UNION { { [i \in 1 .. n |-> DraftVersion(i, ts[i])] : ts \in [1 .. n -> Time] }
            : n \in 0 .. MaxVersions }

\* Every list of at most MaxFeedbacks feedback rows, in every order of their
\* created_at; OrderedByCreatedAt tells the lists the query can return.
FeedbackLists ==
    UNION { { [i \in 1 .. n |-> Feedback(i, ts[i], vs[i])] :
                ts \in [1 .. n -> Time], vs \in [1 .. n -> BOOLEAN] }
            : n \in 0 .. MaxFeedbacks }

\* ------------------------------------------------- the message builders
\* Chat.tsx 186-190: the initial user input.
InitialMessage(draftData) ==
    [id |-> "initial", type |-> "user", content |-> draftData.user_input]

\* A faulty variant of VersionMessage: the version is pushed as a user
\* message.
VersionMessageAsUser(version) ==
    [id |-> "version-" \o version.id, type |-> "user",
     content |-> version.content]

\* Chat.tsx 195-199: one assistant message per draft version.
VersionMessage(version) ==
    [id |-> "version-" \o version.id, type |-> "assistant",
     content |-> version.content]

\* A faulty variant of FeedbackMessage: the validity flag is copied into
\* isError without the negation.
FeedbackMessageNotNegated(feedback) ==
    [id |-> "feedback-" \o feedback.id, type |-> "user",
     content |-> feedback.feedback_text,
     isError |-> feedback.is_valid, feedbackId |-> feedback.id]

\* Chat.tsx 212-218: one user message per relevant feedback.
FeedbackMessage(feedback) ==
    [id |-> "feedback-" \o feedback.id, type |-> "user",
     content |-> feedback.feedback_text,
     isError |-> ~feedback.is_valid, feedbackId |-> feedback.id]

\* A faulty variant of NextVersionDateObj: the next version is never looked
\* up, every window closes at the clock.
NextVersionDateObjAlwaysNow(versions, index, now) == now

\* Chat.tsx 202, 206: the close bound of the window of versions[index]:
\* the next version's date when there is one, else the clock.
NextVersionDateObj(versions, index, now) ==
    IF index + 1 <= Len(versions) THEN versions[index + 1].created_at ELSE now

\* A faulty variant of IsRelevant: the window closed at its open bound
\* (>= where the code has >).
IsRelevantFromBoundary(f, versions, index, now) ==
    /\ f.created_at >= versions[index].created_at
    /\ f.created_at < NextVersionDateObj(versions, index, now)

\* Chat.tsx 204-208: the filter predicate.
IsRelevant(f, versions, index, now) ==
    /\ f.created_at > versions[index].created_at
    /\ f.created_at < NextVersionDateObj(versions, index, now)

RECURSIVE FilterFrom(_, _, _, _, _)
\* Chat.tsx 203-209: the callbacks of feedbacks.filter from feedbacks[k]
\* on.  dates[k] is what new Date() returns to the callback of feedbacks[k]
\* (line 206), read only for the last version.
FilterFrom(versions, feedbacks, index, dates, k) ==
    IF k > Len(feedbacks) THEN <<>>
    ELSE (IF IsRelevant(feedbacks[k], versions, index, dates[k])
          THEN <<feedbacks[k]>> ELSE <<>>)
         \o FilterFrom(versions, feedbacks, index, dates, k + 1)

\* Chat.tsx 203-209: feedbacks.filter(...) keeps the order of feedbacks.
RelevantFeedbacks(versions, feedbacks, index, dates) ==
    FilterFrom(versions, feedbacks, index, dates, 1)

\* Chat.tsx 211-219: relevantFeedbacks.forEach(push).
FeedbackMessages(relevantFeedbacks) ==
    [k \in 1 .. Len(relevantFeedbacks) |-> FeedbackMessage(relevantFeedbacks[k])]

\* A faulty variant of PushVersion: the feedback is pushed before the
\* version it follows.
PushVersionFeedbackFirst(messageHistory, versions, feedbacks, index, dates) ==
    Append(messageHistory
             \o FeedbackMessages(RelevantFeedbacks(versions, feedbacks, index, dates)),
           VersionMessage(versions[index]))

\* Chat.tsx 193-220: one iteration of versions.forEach, appended to history.
PushVersion(messageHistory, versions, feedbacks, index, dates) ==
    Append(messageHistory, VersionMessage(versions[index]))
      \o FeedbackMessages(RelevantFeedbacks(versions, feedbacks, index, dates))

RECURSIVE VersionsForEach(_, _, _, _, _)
\* Chat.tsx 193-220: versions.forEach from index on.
VersionsForEach(messageHistory, versions, feedbacks, index, dates) ==
    IF index > Len(versions) THEN messageHistory
    ELSE VersionsForEach(
             PushVersion(messageHistory, versions, feedbacks, index, dates),
             versions, feedbacks, index + 1, dates)

\* A faulty variant of BuildMessageHistory: the initial user input is not
\* pushed.
BuildMessageHistoryNoInitial(draftData, versions, feedbacks, dates) ==
    VersionsForEach(<<>>, versions, feedbacks, 1, dates)

\* A faulty variant of BuildMessageHistory: the loop over the versions starts
\* one index late.
BuildMessageHistoryOffByOne(draftData, versions, feedbacks, dates) ==
    VersionsForEach(<<InitialMessage(draftData)>>, versions, feedbacks, 2, dates)

\* Chat.tsx 182-220: the whole message history.
BuildMessageHistory(draftData, versions, feedbacks, dates) ==
    VersionsForEach(<<InitialMessage(draftData)>>, versions, feedbacks, 1, dates)

\* The instants the clock of the browser can show to the Chat view: one
\* that lies before the timestamp of a stored row (a clock that runs behind
\* the server's), and one that lies after every row.
BrowserTime == {1, MaxTime + 1}

\* ------------------------------------------------------ the Chat view
\* Chat (src/src/pages/Chat.tsx) is one component instance for every
\* /chat/:draft_id route (src/src/App.tsx).  Its handlers are asynchronous:
\* each runs to its first await in one step, and each response it awaits
\* arrives in a later step, so other handlers run in between.  A response
\* is a success or a failure; the view cannot tell which it will be.  A
\* change of route (a link, navigate()) is a step of its own, and the view
\* is rendered for it in a later step, and the effect of that render runs
\* in a step after that; every edit of a field of the creation form or of
\* the feedback box is a step of its own too.
MaxCalls == 2           \* most handler invocations that await a response

DraftIds == {"d1", "d2"}

\* The identifier the generation service gives to a draft it creates
\* (data.draft_id, Chat.tsx 312): d1 is a draft that existed before.
CreatedDraftIds == {"d2"}

\* The values of the route parameter draft_id (Chat.tsx 63, 104-110).
Routes == {"new"} \cup DraftIds

\* The value null of the state `draft` (Chat.tsx 67).
Null == [null |-> TRUE]

\* The drafts row of draft d, as the query of lines 149-154 returns it.
DraftRow(d) == [id |-> d, user_input |-> "Request of " \o d]

\* The states of a Supabase query: not answered yet, answered with an
\* error, answered with rows (Chat.tsx 163-177).
Pending == [status |-> "pending"]

QueryError == [status |-> "error"]

QueryData(rows) == [status |-> "ok", data |-> rows]

\* The draft_versions rows of draft d, ordered by version (Chat.tsx
\* 164-168): two revisions of d1, one of any other draft.  Row identifiers
\* are unique across drafts.
LoadedVersions(d) ==
    LET row(i, t) == [DraftVersion(i, t) EXCEPT !.id = d \o "-" \o @]
    IN  IF d = "d1" THEN <<row(1, 0), row(2, 2)>> ELSE <<row(1, 0)>>

\* The email_feedbacks rows of draft d, ordered by created_at (Chat.tsx
\* 169-173): a rejected and an accepted feedback on the first revision of
\* d1, none on any other draft.
LoadedFeedbacks(d) ==
    LET row(i, t, valid) == [Feedback(i, t, valid) EXCEPT !.id = d \o "-" \o @]
    IN  IF d = "d1" THEN <<row(1, 1, FALSE), row(2, 1, TRUE)>> ELSE <<>>

\* The texts the user types into the feedback box (Chat.tsx 676-678).
FeedbackTexts == {"", "Make it shorter"}

\* String.prototype.trim on the texts of the model (Chat.tsx 237, 333, 624,
\* 690).
Trim(s) == IF s = "  " THEN "" ELSE s

\* The creation form (Chat.tsx 74-76): every field empty, as constructed,
\* filled in, or filled in with a blank request.
EmptyForm == [selectedBrand |-> "", emailType |-> "", userInput |-> ""]

FilledForm ==
    [selectedBrand |-> "b1", emailType |-> "product",
     userInput |-> "Write a launch email"]

\* The brands rows the query of fetchBrands returns (Chat.tsx 125-132),
\* each row by its id: the user has no brand, or the one brand b1.
BrandLists == { <<>>, <<"b1">> }

\* The email type the user picks of those offered (Chat.tsx 474-477).
EmailTypes == {"product"}

\* The texts the user leaves in the request field (Chat.tsx 612-619).
UserInputTexts == {"", "  ", "Write a launch email"}

\* Every state of the three required fields of the creation form; its
\* other fields only feed the body of the request.
Forms ==
    [selectedBrand : {""} \cup {"b1"}, emailType : {""} \cup EmailTypes,
     userInput : UserInputTexts]

\* The body of a successful generation response (Chat.tsx 301, 365).
GenerationData(d) == [draft_id |-> d, email_draft_result |-> "Generated email"]

\* What the last handler step did: the handler, how the step ended, and
\* the title of the toast it raised ("" for none).
Ev(h, o, t) == [handler |-> h, outcome |-> o, toast |-> t]

NoEvent == Ev("", "", "")

\* What a storage operation returned when it ended: the operation, the
\* identifier it was called with, whether it succeeded, and how many
\* draft_versions rows it had removed by then.
Resp(op, id, ok, removed) == [op |-> op, id |-> id, ok |-> ok, removed |-> removed]

NoResponse == Resp("", "", FALSE, 0)

\* ------------------------------------------------------------- state
VARIABLES
    draftData,      \* the drafts row fetched at Chat.tsx 149-157
    versions,       \* versionsResult.data (Chat.tsx 179)
    feedbacks,      \* feedbacksResult.data (Chat.tsx 180)
    dates,          \* what new Date() returned to the callbacks of the last build
    messages,       \* the React state `messages` (Chat.tsx 69)
    pc,             \* "idle" before the first build, "built" after one
    \* the Chat view (Chat.tsx 62-99)
    draft_id,       \* the route parameter the view was last rendered with (Chat.tsx 63)
    location,       \* the route parameter of the router's location (App.tsx 54)
    mounted,        \* the effect of lines 101-113 has run for the first time
    effectPending,  \* the view was rendered with a new draft_id, and the effect
                    \* that depends on it (Chat.tsx 113) has not run yet
    brands,         \* the React state `brands` (Chat.tsx 68)
    brandsCalls,    \* how many invocations of fetchBrands await their answer
    draft,          \* the React state `draft` (Chat.tsx 67)
    loading,        \* the React state `loading` (Chat.tsx 70)
    isFirstTime,    \* the React state `isFirstTime` (Chat.tsx 71)
    form,           \* selectedBrand, emailType, userInput (Chat.tsx 74-76)
    feedbackText,   \* the React state `feedbackText` (Chat.tsx 97)
    calls,          \* the handler invocations awaiting a response
    nCalls,         \* how many such invocations have been started
    event,          \* what the last handler step did
    \* the storage (src/unnamed/part_001) and the operations on it
    drafts,             \* the rows of table drafts: id, current_version
    draft_versions,     \* the rows of table draft_versions, oldest first
    email_feedbacks,    \* the rows of table email_feedbacks
    tasks,              \* the operations on the storage that are under way
    nTasks,             \* how many such operations have been started
    response            \* what the operation that just ended returned

builderVars == <<draftData, versions, feedbacks, dates, pc>>

chatVars ==
    <<draft_id, location, mounted, effectPending, brands, brandsCalls, draft,
      loading, isFirstTime, form, feedbackText, calls, nCalls, event>>

brandVars == <<brands, brandsCalls>>

storageVars ==
    <<drafts, draft_versions, email_feedbacks, tasks, nTasks, response>>

viewVars == <<builderVars, messages, chatVars>>

vars == <<viewVars, storageVars>>

\* No storage operation has run, and the tables are empty.
StorageUntouched ==
    /\ drafts = {}
    /\ draft_versions = <<>>
    /\ email_feedbacks = {}
    /\ tasks = {}
    /\ nTasks = 0
    /\ response = NoResponse

\* The view as its useState calls construct it (Chat.tsx 67-97).
UseStateInitial ==
    /\ draft = Null
    /\ loading = FALSE
    /\ isFirstTime = FALSE
    /\ form = EmptyForm
    /\ feedbackText = ""
    /\ brands = <<>>
    /\ brandsCalls = 0
    /\ calls = {}
    /\ nCalls = 0
    /\ event = NoEvent

\* The builder's inputs are drawn from the bounded sets; messages is the
\* initial React state [] (Chat.tsx 69).
Init ==
    /\ draftData \in { [user_input |-> u] : u \in UserInputs }
    /\ versions \in VersionLists
    /\ feedbacks \in FeedbackLists
    /\ dates = <<>>
    /\ messages = <<>>
    /\ pc = "idle"
    /\ draft_id = "new"
    /\ location = draft_id
    /\ mounted = FALSE
    /\ effectPending = FALSE
    /\ UseStateInitial
    /\ StorageUntouched

\* The values new Date() can return to n successive callbacks: any
\* instants of the set clock (the clock of the browser can be set back
\* between two reads).
ClockReads(n, clock) == [1 .. n -> clock]

\* The number of clock reads of a build: one per feedback row, in the
\* filter of the last version (Chat.tsx 202-206); none without a version.
ReadsOf(vs, fs) == IF Len(vs) = 0 THEN 0 ELSE Len(fs)

\* Chat.tsx 182-222: build the history from the fetched rows, reading the
\* clock in every callback of the last filter (line 206), and
\* setMessages(messageHistory).
Build ==
    \E ds \in ClockReads(ReadsOf(versions, feedbacks), ClockTime) :
        /\ dates' = ds
        /\ messages' = BuildMessageHistory(draftData, versions, feedbacks, ds)
        /\ pc' = "built"
        /\ UNCHANGED <<draftData, versions, feedbacks, chatVars, storageVars>>

\* The first build of the fetched rows.
BuildTranscript == pc = "idle" /\ Build

\* A later build of the same rows (fetchDraft run again).
BuildAgain == pc = "built" /\ Build

Next == BuildTranscript

\* The builder applied once to every input.
SpecBuilder == Init /\ [][Next]_vars

NextRebuild ==
    \/ BuildTranscript
    \/ BuildAgain

\* The builder applied again and again to the same input.
SpecRebuild == Init /\ [][NextRebuild]_vars

\* ------------------------------------------------- vocabulary of the claims
Built == pc = "built"

\* The builder's input contract: revisions ascending by version, with
\* increasing creation timestamps.
WellFormed(vs) ==
    \A i, j \in 1 .. Len(vs) :
        i < j => vs[i].version < vs[j].version /\ vs[i].created_at < vs[j].created_at

\* The positions of the output that hold the message of feedbacks[k].
FeedbackPositions(k) ==
    { p \in 1 .. Len(messages) : messages[p].id = "feedback-" \o feedbacks[k].id }

\* The positions of the output that hold the message of versions[i].
VersionPositions(i) ==
    { p \in 1 .. Len(messages) : messages[p].id = "version-" \o versions[i].id }

IsFeedbackMessage(m) == "feedbackId" \in DOMAIN m

\* The row of feedbacks a feedback message refers back to.
FeedbackIndex(m) == CHOOSE k \in 1 .. Len(feedbacks) : feedbacks[k].id = m.feedbackId

\* Positions p < q lie in the same window: no revision message in p..q.
SameWindow(p, q) == \A r \in p .. q : messages[r].type # "assistant"

StrictlyBetween(k, i) ==
    /\ versions[i].created_at < feedbacks[k].created_at
    /\ feedbacks[k].created_at < versions[i + 1].created_at

\* ---------------------------------------------------------------- C1
\* C1: an annotation whose timestamp lies strictly between the timestamps
\* of revision i and revision i+1 has its message after revision i's message
\* and before revision i+1's message, with no revision message between
\* revision i's message and it (it is in the block that immediately follows
\* revision i), and with isError false when the annotation is valid.
C1_AnnotationBetweenRevisions ==
    Built =>
        \A i \in 1 .. Len(versions) - 1, k \in 1 .. Len(feedbacks) :
            StrictlyBetween(k, i) =>
                \E a \in VersionPositions(i), b \in VersionPositions(i + 1),
                   p \in FeedbackPositions(k) :
                    /\ a < p /\ p < b
                    /\ SameWindow(a + 1, p)
                    /\ messages[p].feedbackId = feedbacks[k].id
                    /\ feedbacks[k].is_valid => messages[p].isError = FALSE

\* A built transcript with a valid annotation strictly between two revisions.
C1_Witness ==
    /\ Built
    /\ \E i \in 1 .. Len(versions) - 1, k \in 1 .. Len(feedbacks) :
          /\ StrictlyBetween(k, i)
          /\ feedbacks[k].is_valid
          /\ FeedbackPositions(k) # {}

\* ---------------------------------------------------------------- C2
\* C2 as stated: for well-formed input every annotation produces exactly
\* one message of the output.
C2_ExactlyOneMessage ==
    Built /\ WellFormed(versions) =>
        \A k \in 1 .. Len(feedbacks) : Cardinality(FeedbackPositions(k)) = 1

\* The annotation's timestamp is strictly inside some revision's window:
\* later than the first revision, on no revision boundary and, when it is
\* later than the last revision, earlier than the clock value read for it.
InsideSomeWindow(k) ==
    /\ Len(versions) >= 1
    /\ feedbacks[k].created_at > versions[1].created_at
    /\ \A i \in 1 .. Len(versions) : feedbacks[k].created_at # versions[i].created_at
    /\ feedbacks[k].created_at > versions[Len(versions)].created_at
          => feedbacks[k].created_at < dates[k]

\* C2 amended: for well-formed input every annotation produces at most one
\* message of the output, and exactly one exactly when its timestamp is
\* strictly inside some revision's window.
C2_AtMostOneMessage ==
    Built /\ WellFormed(versions) =>
        \A k \in 1 .. Len(feedbacks) :
            /\ Cardinality(FeedbackPositions(k)) <= 1
            /\ Cardinality(FeedbackPositions(k)) = 1 <=> InsideSomeWindow(k)

\* A built transcript of two revisions and two annotations, one shown and
\* one dropped.
C2_Witness ==
    /\ Built /\ WellFormed(versions)
    /\ Len(versions) = 2
    /\ \E k, l \in 1 .. Len(feedbacks) :
          /\ Cardinality(FeedbackPositions(k)) = 1
          /\ Cardinality(FeedbackPositions(l)) = 0

\* ---------------------------------------------------------------- C3
\* C3: for well-formed input, an annotation whose timestamp equals the
\* creation timestamp of some revision appears nowhere in the output.
C3_BoundaryAnnotationExcluded ==
    Built /\ WellFormed(versions) =>
        \A k \in 1 .. Len(feedbacks) :
            (\E i \in 1 .. Len(versions) :
                 feedbacks[k].created_at = versions[i].created_at)
              => /\ FeedbackPositions(k) = {}
                 /\ \A p \in 1 .. Len(messages) :
                        IsFeedbackMessage(messages[p])
                          => messages[p].feedbackId # feedbacks[k].id

\* A built transcript with an annotation on the boundary between the
\* windows of two revisions, read at a clock later than every timestamp.
C3_Witness ==
    /\ Built /\ WellFormed(versions)
    /\ Len(versions) = 2
    /\ \E k \in 1 .. Len(feedbacks) :
          /\ feedbacks[k].created_at = versions[2].created_at
          /\ feedbacks[k].created_at < dates[k]

\* ---------------------------------------------------------------- C4
\* C4 as stated: for well-formed input, an annotation whose timestamp is
\* after the last revision's timestamp has its message after the last
\* revision's message, whatever the clock value the build read.
C4_AfterLastRevisionAtEnd ==
    Built /\ WellFormed(versions) /\ Len(versions) >= 1 =>
        \A k \in 1 .. Len(feedbacks) :
            feedbacks[k].created_at > versions[Len(versions)].created_at
              => \E a \in VersionPositions(Len(versions)), p \in FeedbackPositions(k) :
                     a < p

\* ---------------------------------------------------------------- C5
\* C5 as stated: two builds from the same original request, revisions and
\* annotations set the same message list, whenever they run (the inputs
\* never change in a behaviour, only the clock does).
C5_Deterministic == [][Built /\ Built' => messages' = messages]_vars

\* ---------------------------------------------------------------- C6
\* C6: with no revision and no annotation the output is exactly one
\* message, the original request, with role user.
C6_EmptyInputsSingleMessage ==
    Built /\ versions = <<>> /\ feedbacks = <<>> =>
        /\ Len(messages) = 1
        /\ messages[1].id = "initial"
        /\ messages[1].type = "user"
        /\ messages[1].content = draftData.user_input

\* A transcript built from empty collections.
C6_Witness == Built /\ versions = <<>> /\ feedbacks = <<>> /\ Len(messages) = 1

\* ---------------------------------------------------------------- C7
\* C7 as stated: with N revisions and no annotation the output has length
\* N+1 and its roles alternate user/assistant starting with user.
C7_RolesAlternate ==
    Built /\ feedbacks = <<>> =>
        /\ Len(messages) = Len(versions) + 1
        /\ \A p \in 1 .. Len(messages) :
              messages[p].type = IF p % 2 = 1 THEN "user" ELSE "assistant"

\* C7 amended: with N revisions and no annotation the output has length
\* N+1, its first message has role user and the N messages after it all
\* have role assistant.
C7_UserThenAssistants ==
    Built /\ feedbacks = <<>> =>
        /\ Len(messages) = Len(versions) + 1
        /\ messages[1].type = "user"
        /\ \A p \in 2 .. Len(messages) : messages[p].type = "assistant"

\* A transcript built from two revisions and no annotation.
C7_Witness == Built /\ feedbacks = <<>> /\ Len(versions) = 2 /\ Len(messages) = 3

\* ---------------------------------------------------------------- C8
\* Two annotation messages of the same window, at positions p < q.
WindowPairs ==
    { pq \in (1 .. Len(messages)) \X (1 .. Len(messages)) :
        /\ pq[1] < pq[2]
        /\ IsFeedbackMessage(messages[pq[1]])
        /\ IsFeedbackMessage(messages[pq[2]])
        /\ SameWindow(pq[1], pq[2]) }

CreatedAtOf(m) == feedbacks[FeedbackIndex(m)].created_at

\* The order of the email_feedbacks query, .order('created_at').
OrderedByCreatedAt(fs) ==
    \A i, j \in 1 .. Len(fs) : i < j => fs[i].created_at <= fs[j].created_at

C9_MessageFields ==
    Built =>
        \A p \in 1 .. Len(messages) :
            LET m == messages[p]
                from == { k \in 1 .. Len(feedbacks) :
                            m.id = "feedback-" \o feedbacks[k].id }
            IN  IF from # {}
                THEN \A k \in from :
                        /\ DOMAIN m = {"id", "type", "content", "isError", "feedbackId"}
                        /\ m.type = "user"
                        /\ m.isError = ~feedbacks[k].is_valid
                        /\ m.feedbackId = feedbacks[k].id
                        /\ m.content = feedbacks[k].feedback_text
                ELSE /\ DOMAIN m = {"id", "type", "content"}
                     /\ \/ p = 1 /\ m.id = "initial"
                        \/ \E i \in 1 .. Len(versions) :
                              m.id = "version-" \o versions[i].id

\* A transcript that shows a rejected annotation and an accepted one.
C9_Witness ==
    /\ Built
    /\ \E p, q \in 1 .. Len(messages) :
          /\ IsFeedbackMessage(messages[p]) /\ messages[p].isError
          /\ IsFeedbackMessage(messages[q]) /\ ~messages[q].isError

\* ---------------------------------------------------------------- C10
\* C10: the output starts with the original-request message, and its
\* assistant messages are the input revisions in their given order, one
\* message per revision.
C10_RequestThenRevisionsInOrder ==
    Built =>
        /\ Len(messages) >= 1
        /\ messages[1] =
              [id |-> "initial", type |-> "user", content |-> draftData.user_input]
        /\ SelectSeq(messages, LAMBDA m : m.type = "assistant")
              = [i \in 1 .. Len(versions) |->
                   [id |-> "version-" \o versions[i].id, type |-> "assistant",
                    content |-> versions[i].content]]

\* A transcript of two revisions with an annotation shown between them.
C10_Witness ==
    /\ Built /\ Len(versions) = 2
    /\ \E p \in 1 .. Len(messages) :
          /\ IsFeedbackMessage(messages[p])
          /\ VersionPositions(1) # {} /\ VersionPositions(2) # {}
          /\ \A a \in VersionPositions(1), b \in VersionPositions(2) : a < p /\ p < b

\* =================================================== the Chat view
\* ------------------------------------------------ its list updates
\* Chat.tsx 397 with every message that refers to any feedback dropped.
RemoveEveryFeedbackMessage(prev, feedbackId) ==
    SelectSeq(prev, LAMBDA m : "feedbackId" \notin DOMAIN m)

\* Chat.tsx 397: prev.filter(m => m.feedbackId !== feedbackId).  A message
\* without a feedbackId has feedbackId undefined and is kept.
RemoveFeedbackMessages(prev, feedbackId) ==
    SelectSeq(prev, LAMBDA m :
        ~ ("feedbackId" \in DOMAIN m /\ m.feedbackId = feedbackId))

\* Chat.tsx 392-397 without the response.ok test: the message is dropped
\* whatever the DELETE request answered.
AfterDeleteResponseAlways(prev, ok, feedbackId) ==
    RemoveFeedbackMessages(prev, feedbackId)

\* Chat.tsx 392-397: a response that is not ok throws before setMessages;
\* an ok response drops the messages of the feedback.
AfterDeleteResponse(prev, ok, feedbackId) ==
    IF ok THEN RemoveFeedbackMessages(prev, feedbackId) ELSE prev

\* Chat.tsx 343 with the new message put first.
PrependMessage(prev, message) == <<message>> \o prev

\* Chat.tsx 309, 343, 372: [...prev, message].
AppendMessage(prev, message) == Append(prev, message)

\* Chat.tsx 360-372 without the response.ok test.
WithAssistantMessageAlways(prev, ok, assistantMessage) ==
    AppendMessage(prev, assistantMessage)

\* Chat.tsx 296-309, 360-372: a response that is not ok throws before the
\* assistant message is built; an ok response appends it.
WithAssistantMessage(prev, ok, assistantMessage) ==
    IF ok THEN AppendMessage(prev, assistantMessage) ELSE prev

\* Chat.tsx 163-174 continuing as soon as the versions query has answered.
VersionsAnswered(versionsResult, feedbacksResult) == versionsResult # Pending

\* Chat.tsx 163-174: `await Promise.all([...])` continues when both queries
\* have answered.
BothAnswered(versionsResult, feedbacksResult) ==
    versionsResult # Pending /\ feedbacksResult # Pending

\* Chat.tsx 179-180: `result.data || []`.
RowsOf(result) == IF result.status = "ok" THEN result.data ELSE <<>>

\* Chat.tsx 281-285.
UserInputMessage(userInput) ==
    [id |-> "user-input", type |-> "user", content |-> userInput]

\* Chat.tsx 304-308.
AssistantResponseMessage(data) ==
    [id |-> "assistant-response", type |-> "assistant",
     content |-> data.email_draft_result]

\* Chat.tsx 338-342; Date.now() returned date.
UserFeedbackMessage(text, date) ==
    [id |-> "feedback-" \o ToString(date), type |-> "user", content |-> text]

\* Chat.tsx 367-371; Date.now() returned date.
AssistantMessage(data, date) ==
    [id |-> "assistant-" \o ToString(date), type |-> "assistant",
     content |-> data.email_draft_result]

\* Chat.tsx 237, 624: the three required fields of the creation form.
FormComplete(f) ==
    f.selectedBrand # "" /\ f.emailType # "" /\ Trim(f.userInput) # ""

\* A faulty variant of CanDelete: the delete button is offered for every
\* message that carries a feedbackId, rejected or not.
CanDeleteWithFeedbackId(message) == "feedbackId" \in DOMAIN message

\* Chat.tsx 656: canDelete={!!(message.isError && message.feedbackId)}.
CanDelete(message) ==
    /\ "isError" \in DOMAIN message /\ message.isError
    /\ "feedbackId" \in DOMAIN message

\* Chat.tsx 669: the feedback box is rendered.
InputAreaShown == draft # Null /\ ~ isFirstTime

\* ----------------------------------------- invocations awaiting a response
FetchDraftCall(n, d) ==
    [n |-> n, kind |-> "fetchDraft", draft_id |-> d, pc |-> "draft",
     draftData |-> Null, versionsResult |-> Pending,
     feedbacksResult |-> Pending, wrote |-> {}]

GenerationCall(n, kind, d) == [n |-> n, kind |-> kind, draft_id |-> d]

DeleteFeedbackCall(n, feedbackId) ==
    [n |-> n, kind |-> "deleteFeedback", feedbackId |-> feedbackId]

\* The effect that is due will start fetchDraft when it runs for a draft.
PendingEffectLoad ==
    IF mounted /\ effectPending /\ draft_id # "new" THEN 1 ELSE 0

\* A change of route that has been asked for (a link, or navigate()) and
\* is not rendered yet will start fetchDraft when its effect runs, and so
\* will the effect that is due.
ReservedLoad ==
    PendingEffectLoad
        + (IF mounted /\ location # draft_id /\ location # "new" THEN 1 ELSE 0)

CanStart == nCalls + ReservedLoad < MaxCalls

\* -------------------------------------------------------- the effect
\* Chat.tsx 101-113, run for route parameter d on a view whose isFirstTime,
\* loading and calls are isFT, ld and cs: 'new' shows the creation form
\* and starts fetchBrands, which awaits the brands query (123-129); any
\* other value starts fetchDraft, which sets loading (line 146) and awaits
\* the drafts query as invocation n.
RunEffect(d, isFT, ld, cs, n) ==
    /\ isFirstTime' = (IF d = "new" THEN TRUE ELSE isFT)
    /\ brandsCalls' = (IF d = "new" THEN brandsCalls + 1 ELSE brandsCalls)
    /\ loading' = (IF d = "new" THEN ld ELSE TRUE)
    /\ calls' = (IF d = "new" THEN cs ELSE cs \cup {FetchDraftCall(n, d)})
    /\ nCalls' = (IF d = "new" THEN nCalls ELSE n)

\* navigate('/chat/' + d) (Chat.tsx 229, 312) or a link to that route: the
\* router's location changes.  The change is a transition (App.tsx 76): the
\* view is rendered for it, and its effect runs, in a later step.
NavigateTo(d) == location' = d

InitChat ==
    /\ draftData = Null
    /\ versions = <<>>
    /\ feedbacks = <<>>
    /\ pc = "idle"
    /\ dates = <<>>
    /\ messages = <<>>
    /\ draft_id \in Routes
    /\ location = draft_id
    /\ mounted = FALSE
    /\ effectPending = FALSE
    /\ UseStateInitial
    /\ StorageUntouched

\* Chat.tsx 101-113: the effect runs after the first render.
Mount ==
    /\ ~ mounted
    /\ mounted' = TRUE
    /\ RunEffect(draft_id, isFirstTime, loading, calls, nCalls + 1)
    /\ event' = Ev("useEffect", "ran", "")
    /\ UNCHANGED <<storageVars, builderVars, messages, draft_id, location,
                   effectPending, brands, draft, form, feedbackText>>

\* The user follows a link to another /chat/ route (a draft of the
\* sidebar, or the new-draft entry), while the bound on invocations leaves
\* room for the load it may start.
OpenRoute ==
    \E d \in Routes \ {location} :
        /\ mounted
        /\ nCalls + PendingEffectLoad < MaxCalls
        /\ NavigateTo(d)
        /\ event' = Ev("Link", "navigated", "")
        /\ UNCHANGED <<storageVars, builderVars, messages, draft_id, mounted,
                       effectPending, brandVars, draft, loading, isFirstTime,
                       form, feedbackText, calls, nCalls>>

\* Chat.tsx 63: the same Chat instance (App.tsx 54) is rendered for the
\* new location; useParams returns the new draft_id.  The effect of lines
\* 101-113 depends on it (line 113), so it is due; React runs the effect
\* that is due from one render before it renders again.
RenderRoute ==
    /\ mounted /\ ~ effectPending
    /\ location # draft_id
    /\ draft_id' = location
    /\ effectPending' = TRUE
    /\ event' = Ev("render", "rendered", "")
    /\ UNCHANGED <<storageVars, builderVars, messages, location, mounted,
                   brandVars, draft, loading, isFirstTime, form, feedbackText,
                   calls, nCalls>>

\* Chat.tsx 101-113: the effect that is due runs, for the draft_id the view
\* was last rendered with.
RouteEffect ==
    /\ mounted /\ effectPending
    /\ effectPending' = FALSE
    /\ RunEffect(draft_id, isFirstTime, loading, calls, nCalls + 1)
    /\ event' = Ev("useEffect", "ran", "")
    /\ UNCHANGED <<storageVars, builderVars, messages, draft_id, location,
                   mounted, brands, draft, form, feedbackText>>

\* ------------------------------------------------------- fetchBrands
\* Chat.tsx 123-141: the brands query answers.  An error raises the toast
\* and leaves the list as it was; else the rows are stored with setBrands.
BrandsAnswered ==
    \E result \in {QueryError} \cup { QueryData(rows) : rows \in BrandLists } :
        /\ brandsCalls > 0
        /\ brandsCalls' = brandsCalls - 1
        /\ brands' = (IF result = QueryError THEN brands ELSE RowsOf(result))
        /\ event' = (IF result = QueryError
                     THEN Ev("fetchBrands", "failed", "Error loading brands")
                     ELSE Ev("fetchBrands", "loaded", ""))
        /\ UNCHANGED <<storageVars, builderVars, messages, draft_id, location,
                       mounted, effectPending, draft, loading, isFirstTime, form,
                       feedbackText, calls, nCalls>>

\* ------------------------------------------------------- fetchDraft
\* A faulty variant of FailLoad: the finally block is missing, the loading
\* flag stays as the failed load left it.
FailLoadNoFinally(c) ==
    /\ NavigateTo("new")
    /\ calls' = calls \ {c}
    /\ event' = Ev("fetchDraft", "failed", "Error loading draft")
    /\ UNCHANGED <<storageVars, builderVars, messages, draft_id, mounted,
                   effectPending, brandVars, draft, loading, isFirstTime, form,
                   feedbackText, nCalls>>

\* Chat.tsx 223-233: the catch block raises the toast and navigates to
\* /chat/new, the finally block clears loading; c is the failed load.
FailLoad(c) ==
    /\ NavigateTo("new")
    /\ loading' = FALSE
    /\ calls' = calls \ {c}
    /\ event' = Ev("fetchDraft", "failed", "Error loading draft")
    /\ UNCHANGED <<storageVars, builderVars, messages, draft_id, mounted,
                   effectPending, brandVars, draft, isFirstTime, form,
                   feedbackText, nCalls>>

\* Chat.tsx 149-160: the drafts query answers.  An error (or no row) is
\* thrown; a row is stored with setDraft, and the two row queries start.
DraftAnswered ==
    \E c \in calls :
        /\ c.kind = "fetchDraft" /\ c.pc = "draft"
        /\ \/ FailLoad(c)
           \/ LET draftRow == DraftRow(c.draft_id)
                  wrote == IF draftRow # draft THEN {"draft"} ELSE {}
              IN  /\ draft' = draftRow
                  /\ calls' = (calls \ {c}) \cup
                         {[c EXCEPT !.pc = "rows", !.draftData = draftRow,
                                    !.wrote = wrote]}
                  /\ event' = Ev("fetchDraft", "setDraft", "")
                  /\ UNCHANGED <<storageVars, builderVars, messages, draft_id,
                                 location, mounted, effectPending, brandVars,
                                 loading, isFirstTime, form, feedbackText,
                                 nCalls>>

\* Chat.tsx 163-233: one of the two row queries answers load c with result.
\* While the other is pending the load keeps waiting.  When both have
\* answered: an error in either is thrown (176-177), else the history is
\* built and stored with setMessages (182-222) and loading is cleared.
RowsAnswered(c, which, result) ==
    LET c2 == [c EXCEPT ![which] = result]
    IN  IF ~ BothAnswered(c2.versionsResult, c2.feedbacksResult)
        THEN /\ calls' = (calls \ {c}) \cup {c2}
             /\ event' = Ev("fetchDraft", "awaiting", "")
             /\ UNCHANGED <<storageVars, builderVars, messages, draft_id,
                            location, mounted, effectPending, brandVars, draft,
                            loading, isFirstTime, form, feedbackText, nCalls>>
        ELSE IF c2.versionsResult = QueryError \/ c2.feedbacksResult = QueryError
        THEN FailLoad(c)
        ELSE \E ds \in ClockReads(ReadsOf(RowsOf(c2.versionsResult),
                                         RowsOf(c2.feedbacksResult)),
                                 BrowserTime) :
                /\ messages' =
                       BuildMessageHistory(c2.draftData, RowsOf(c2.versionsResult),
                                           RowsOf(c2.feedbacksResult), ds)
                /\ loading' = FALSE
                /\ calls' = calls \ {c}
                /\ event' = Ev("fetchDraft", "loaded", "")
                /\ UNCHANGED <<storageVars, builderVars, draft_id, location,
                               mounted, effectPending, brandVars, draft,
                               isFirstTime, form, feedbackText, nCalls>>

VersionsAnswer ==
    \E c \in calls :
        /\ c.kind = "fetchDraft" /\ c.pc = "rows"
        /\ c.versionsResult = Pending
        /\ \E result \in {QueryError, QueryData(LoadedVersions(c.draft_id))} :
               RowsAnswered(c, "versionsResult", result)

FeedbacksAnswer ==
    \E c \in calls :
        /\ c.kind = "fetchDraft" /\ c.pc = "rows"
        /\ c.feedbacksResult = Pending
        /\ \E result \in {QueryError, QueryData(LoadedFeedbacks(c.draft_id))} :
               RowsAnswered(c, "feedbacksResult", result)

\* -------------------------------------------------- createFirstDraft
\* Chat.tsx 453, 469, 615: a call of setSelectedBrand, setEmailType or
\* setUserInput leaves the creation form as f.
SetForm(f) ==
    /\ form' = f
    /\ event' = Ev("onChange", "form", "")
    /\ UNCHANGED <<storageVars, builderVars, messages, draft_id, location,
                   mounted, effectPending, brandVars, draft, loading,
                   isFirstTime, feedbackText, calls, nCalls>>

\* Chat.tsx 422-430: the creation form is rendered while isFirstTime holds
\* and the brand list is not empty; with an empty list (not fetched yet,
\* fetched empty, or the fetch failed) "No brands found" takes its place.
FormShown == isFirstTime /\ brands # <<>>

\* Chat.tsx 453-462: the user picks one of the listed brands.
SetSelectedBrand ==
    \E k \in 1 .. Len(brands) :
        /\ mounted /\ FormShown
        /\ brands[k] # form.selectedBrand
        /\ SetForm([form EXCEPT !.selectedBrand = brands[k]])

\* Chat.tsx 469-477: the user picks an email type.
SetEmailType ==
    \E type \in EmailTypes \ {form.emailType} :
        /\ mounted /\ FormShown
        /\ SetForm([form EXCEPT !.emailType = type])

\* Chat.tsx 612-619: the user edits the request field.
SetUserInput ==
    \E text \in UserInputTexts \ {form.userInput} :
        /\ mounted /\ FormShown
        /\ SetForm([form EXCEPT !.userInput = text])

\* The user changes one field of the creation form.
FillForm ==
    \/ SetSelectedBrand
    \/ SetEmailType
    \/ SetUserInput

\* Chat.tsx 236-289, called while the creation form holds f: an
\* incomplete form raises "Missing information" and returns; else the
\* handler sets loading, replaces the list by the user's message and calls
\* the generation service.
CreateFirstDraftCalled(f) ==
    /\ form' = f
    /\ IF ~ FormComplete(f)
       THEN /\ event' = Ev("createFirstDraft", "returned", "Missing information")
            /\ UNCHANGED <<messages, loading, calls, nCalls>>
       ELSE /\ loading' = TRUE
            /\ messages' = <<UserInputMessage(f.userInput)>>
            /\ calls' = calls \cup
                   {GenerationCall(nCalls + 1, "createFirstDraft", "new")}
            /\ nCalls' = nCalls + 1
            /\ event' = Ev("createFirstDraft", "sent", "")
    /\ UNCHANGED <<storageVars, builderVars, draft_id, location, mounted,
                   effectPending, brandVars, draft, isFirstTime, feedbackText>>

\* The user presses the Generate button (Chat.tsx 623-624), which is
\* enabled on a complete form while nothing is loading.
CreateFirstDraft ==
    /\ mounted /\ FormShown
    /\ ~ loading /\ FormComplete(form)
    /\ CanStart
    /\ CreateFirstDraftCalled(form)

\* Chat.tsx 289-329: the generation service answers.  A failure raises the
\* toast; a success appends the assistant message, navigates to the new
\* draft and leaves the creation form; loading is cleared either way.
CreateAnswered ==
    \E c \in calls, ok \in BOOLEAN, d \in CreatedDraftIds :
        /\ c.kind = "createFirstDraft"
        /\ messages' = WithAssistantMessage(messages, ok,
                                            AssistantResponseMessage(GenerationData(d)))
        /\ IF ok
           THEN /\ d = draft_id \/ nCalls + PendingEffectLoad < MaxCalls
                /\ NavigateTo(d)
                /\ isFirstTime' = FALSE
                /\ event' = Ev("createFirstDraft", "created", "Draft created!")
           ELSE /\ event' = Ev("createFirstDraft", "failed", "Error creating draft")
                /\ UNCHANGED <<location, isFirstTime>>
        /\ loading' = FALSE
        /\ calls' = calls \ {c}
        /\ UNCHANGED <<storageVars, builderVars, draft_id, mounted,
                       effectPending, brandVars, draft, form, feedbackText,
                       nCalls>>

\* ---------------------------------------------------- submitFeedback
\* Chat.tsx 676-678: onChange of the feedback box, setFeedbackText(text).
SetFeedbackText(text) ==
    /\ feedbackText' = text
    /\ event' = Ev("onChange", "feedbackText", "")
    /\ UNCHANGED <<storageVars, builderVars, messages, draft_id, location,
                   mounted, effectPending, brandVars, draft, loading,
                   isFirstTime, form, calls, nCalls>>

\* The user types into the feedback box, which is rendered with the input
\* area (Chat.tsx 669) and is not disabled by loading.
TypeFeedback ==
    \E text \in FeedbackTexts \ {feedbackText} :
        /\ mounted /\ InputAreaShown
        /\ SetFeedbackText(text)

\* Chat.tsx 332-358 with the blank-text test of line 333 left out.
SubmitFeedbackUnchecked(text) ==
    /\ IF draft = Null
       THEN /\ feedbackText' = text
            /\ event' = Ev("submitFeedback", "returned", "")
            /\ UNCHANGED <<messages, loading, calls, nCalls>>
       ELSE \E date \in BrowserTime :
                /\ loading' = TRUE
                /\ messages' = AppendMessage(messages,
                                             UserFeedbackMessage(text, date))
                /\ feedbackText' = ""
                /\ calls' = calls \cup
                       {GenerationCall(nCalls + 1, "submitFeedback", draft.id)}
                /\ nCalls' = nCalls + 1
                /\ event' = Ev("submitFeedback", "sent", "")
    /\ UNCHANGED <<storageVars, builderVars, draft_id, location, mounted,
                   effectPending, brandVars, draft, isFirstTime, form>>

\* Chat.tsx 332-358, called while the feedback box holds text: the handler
\* returns on blank text or without a draft; else it sets loading, appends
\* the user's message, clears the box and calls the generation service.
SubmitFeedbackCalled(text) ==
    /\ IF Trim(text) = "" \/ draft = Null
       THEN /\ feedbackText' = text
            /\ event' = Ev("submitFeedback", "returned", "")
            /\ UNCHANGED <<messages, loading, calls, nCalls>>
       ELSE \E date \in BrowserTime :
                /\ loading' = TRUE
                /\ messages' = AppendMessage(messages,
                                             UserFeedbackMessage(text, date))
                /\ feedbackText' = ""
                /\ calls' = calls \cup
                       {GenerationCall(nCalls + 1, "submitFeedback", draft.id)}
                /\ nCalls' = nCalls + 1
                /\ event' = Ev("submitFeedback", "sent", "")
    /\ UNCHANGED <<storageVars, builderVars, draft_id, location, mounted,
                   effectPending, brandVars, draft, isFirstTime, form>>

\* The user presses Cmd/Ctrl+Enter in the feedback box (Chat.tsx 680-684),
\* which neither loading nor an empty box disables, or the Send button
\* (689-690), which calls the same handler when it is enabled.
SubmitFeedback ==
    /\ mounted /\ InputAreaShown
    /\ CanStart
    /\ SubmitFeedbackCalled(feedbackText)

\* Chat.tsx 348-383: the generation service answers.  A failure raises the
\* toast; a success appends the assistant message; loading is cleared.
SubmitAnswered ==
    \E c \in calls, ok \in BOOLEAN, date \in BrowserTime :
        /\ c.kind = "submitFeedback"
        /\ messages' = WithAssistantMessage(messages, ok,
                           AssistantMessage(GenerationData(c.draft_id), date))
        /\ event' = (IF ok THEN Ev("submitFeedback", "answered", "")
                            ELSE Ev("submitFeedback", "failed", "Error submitting feedback"))
        /\ loading' = FALSE
        /\ calls' = calls \ {c}
        /\ UNCHANGED <<storageVars, builderVars, draft_id, location, mounted,
                       effectPending, brandVars, draft, isFirstTime, form,
                       feedbackText, nCalls>>

\* ---------------------------------------------------- deleteFeedback
\* Chat.tsx 386-390, 651-660: the delete control of a message that failed
\* validation calls the handler, which sends the DELETE request.
DeleteFeedback ==
    \E p \in 1 .. Len(messages) :
        /\ mounted /\ ~ isFirstTime
        /\ CanDelete(messages[p])
        /\ CanStart
        /\ calls' = calls \cup {DeleteFeedbackCall(nCalls + 1, messages[p].feedbackId)}
        /\ nCalls' = nCalls + 1
        /\ event' = Ev("deleteFeedback", "sent", "")
        /\ UNCHANGED <<storageVars, builderVars, messages, draft_id, location,
                       mounted, effectPending, brandVars, draft, loading,
                       isFirstTime, form, feedbackText>>

\* Chat.tsx 392-410: the DELETE request answers.  A success drops the
\* messages of that feedback and raises "Feedback deleted"; a failure
\* raises the error toast.
DeleteAnswered ==
    \E c \in calls, ok \in BOOLEAN :
        /\ c.kind = "deleteFeedback"
        /\ messages' = AfterDeleteResponse(messages, ok, c.feedbackId)
        /\ calls' = calls \ {c}
        /\ event' = IF ok
                    THEN Ev("deleteFeedback", "deleted", "Feedback deleted")
                    ELSE Ev("deleteFeedback", "failed", "Error deleting feedback")
        /\ UNCHANGED <<storageVars, builderVars, draft_id, location, mounted,
                       effectPending, brandVars, draft, loading, isFirstTime,
                       form, feedbackText, nCalls>>

NextChat ==
    \/ Mount
    \/ OpenRoute
    \/ RenderRoute
    \/ RouteEffect
    \/ BrandsAnswered
    \/ DraftAnswered
    \/ VersionsAnswer
    \/ FeedbacksAnswer
    \/ FillForm
    \/ CreateFirstDraft
    \/ CreateAnswered
    \/ TypeFeedback
    \/ SubmitFeedback
    \/ SubmitAnswered
    \/ DeleteFeedback
    \/ DeleteAnswered

Spec == InitChat /\ [][NextChat]_vars

\* ------------------------------------------- vocabulary of the view claims
\* Message m carries a back-reference to feedback f.
RefersTo(m, f) == "feedbackId" \in DOMAIN m /\ m.feedbackId = f

\* new is old without the messages that refer to f: the other messages are
\* all there, each at its old position less the removed ones before it.
ExactlyRemoved(old, new, f) ==
    LET kept == { p \in 1 .. Len(old) : ~ RefersTo(old[p], f) }
        rank(p) == Cardinality({ q \in kept : q <= p })
    IN  /\ Len(new) = Cardinality(kept)
        /\ \A p \in kept : new[rank(p)] = old[p]

\* Call c received its answer in this step.
AnsweredNow(c) == c \in calls /\ c \notin calls'

\* Call c was started in this step.
StartedNow(c) == c \in calls' /\ c \notin calls

\* ---------------------------------------------------------------- C11
\* C11: when the deletion call of Chat.deleteFeedback succeeds for
\* feedback f, the step removes from the message list exactly the messages
\* whose back-reference is f, and leaves every other message and the
\* relative order of the remaining messages unchanged.
C11_DeleteRemovesExactlyReferenced ==
    [][ \A c \in calls :
            (c.kind = "deleteFeedback" /\ AnsweredNow(c) /\ event'.outcome = "deleted")
            => ExactlyRemoved(messages, messages', c.feedbackId) ]_vars

\* A deletion has succeeded on the loaded transcript of d1: the rejected
\* feedback's message is gone, and the request, both revisions and the
\* accepted feedback's message are still there.
C11_Witness ==
    /\ event = Ev("deleteFeedback", "deleted", "Feedback deleted")
    /\ Len(messages) = 4
    /\ \E p \in 1 .. Len(messages) : RefersTo(messages[p], "d1-f2")
    /\ \A p \in 1 .. Len(messages) : ~ RefersTo(messages[p], "d1-f1")

\* ---------------------------------------------------------------- C12
\* new is old with one message added after all of old's messages.
AppendedAtEnd(old, new) ==
    /\ Len(new) = Len(old) + 1
    /\ SubSeq(new, 1, Len(old)) = old

RECURSIVE IsSubsequence(_, _)
\* The messages of a all occur in b, in the order they have in a.
IsSubsequence(a, b) ==
    IF a = <<>> THEN TRUE
    ELSE IF b = <<>> THEN FALSE
    ELSE IF Head(a) = Head(b) THEN IsSubsequence(Tail(a), Tail(b))
    ELSE IsSubsequence(a, Tail(b))

\* C12: the two live mutations keep the message list in insertion order:
\* each append of submitFeedback (the user's message when the request is
\* sent, the assistant's when it is answered) puts the new message after
\* all the messages already there, and each removal of deleteFeedback
\* leaves the surviving messages in the order they had.
C12_InsertionOrderKept ==
    [][ \A c \in calls \cup calls' :
            /\ (c.kind = "submitFeedback" /\ StartedNow(c))
               => AppendedAtEnd(messages, messages')
            /\ (c.kind = "submitFeedback" /\ AnsweredNow(c)
                    /\ event'.outcome = "answered")
               => AppendedAtEnd(messages, messages')
            /\ (c.kind = "deleteFeedback" /\ AnsweredNow(c))
               => IsSubsequence(messages', messages) ]_vars

\* On the loaded transcript of d1 (five messages) a feedback was sent and
\* answered: the user's message and then the assistant's are the last two.
C12_Witness ==
    /\ event = Ev("submitFeedback", "answered", "")
    /\ Len(messages) = 7
    /\ messages[1].id = "initial"
    /\ messages[6].type = "user" /\ messages[6].content = "Make it shorter"
    /\ messages[7].type = "assistant"

\* ---------------------------------------------------------------- C13
\* C13: when the generation call of submitFeedback or createFirstDraft
\* fails, the step that handles the failure raises the handler's error
\* toast and leaves the message list as it was: no assistant message is
\* appended, and the user's message, which the handler put at the end of
\* the list (submitFeedback) or made the whole list (createFirstDraft)
\* when it sent the request, is not taken back.
C13_GenerationFailureKeepsUserMessage ==
    [][ \A c \in calls \cup calls' :
            /\ (c.kind = "submitFeedback" /\ StartedNow(c))
               => /\ messages' # <<>>
                  /\ messages'[Len(messages')].type = "user"
                  /\ Len(messages') = Len(messages) + 1
            /\ (c.kind = "createFirstDraft" /\ StartedNow(c))
               => messages' = <<UserInputMessage(form'.userInput)>>
            /\ (c.kind = "submitFeedback" /\ AnsweredNow(c)
                    /\ event'.outcome = "failed")
               => /\ event'.toast = "Error submitting feedback"
                  /\ messages' = messages
            /\ (c.kind = "createFirstDraft" /\ AnsweredNow(c)
                    /\ event'.outcome = "failed")
               => /\ event'.toast = "Error creating draft"
                  /\ messages' = messages ]_vars

\* A feedback on the loaded transcript of d1 was sent and its generation
\* call has failed: the toast is up, the user's message is still the last
\* of the list, and no assistant message follows it.
C13_Witness ==
    /\ event = Ev("submitFeedback", "failed", "Error submitting feedback")
    /\ Len(messages) = 6
    /\ messages[6].type = "user" /\ messages[6].content = "Make it shorter"
    /\ messages[5].id = "version-d1-v2"

\* ---------------------------------------------------------------- C14
\* The transcripts of draft d built from both of its row sets.
FullTranscripts(d) ==
    { BuildMessageHistory(DraftRow(d), LoadedVersions(d), LoadedFeedbacks(d), ds) :
          ds \in ClockReads(ReadsOf(LoadedVersions(d), LoadedFeedbacks(d)),
                            BrowserTime) }

\* C14: the two row queries of a load are joined before the builder runs.
\* A step in which one of them answers sets the message list only if the
\* other had answered before, with rows, and then sets it to a transcript
\* built from both row sets; a step that leaves the other query pending,
\* or that ends the load in failure, leaves the message list as it was.
C14_ListSetAfterBothFetches ==
    [][ \A c \in calls :
            (c.kind = "fetchDraft" /\ c.pc = "rows" /\ AnsweredNow(c))
            => IF event'.outcome = "loaded"
               THEN /\ \/ c.versionsResult = Pending /\ c.feedbacksResult.status = "ok"
                       \/ c.feedbacksResult = Pending /\ c.versionsResult.status = "ok"
                    /\ messages' \in FullTranscripts(c.draft_id)
               ELSE messages' = messages ]_vars

\* The load of d1 has completed: the list holds the request, both revisions
\* and the messages of both feedbacks, and no query is pending.
C14_Witness ==
    /\ event = Ev("fetchDraft", "loaded", "")
    /\ calls = {}
    /\ Len(messages) = 5
    /\ \E p \in 1 .. Len(messages) : RefersTo(messages[p], "d1-f1")
    /\ \E p \in 1 .. Len(messages) : messages[p].id = "version-d1-v2"

\* ---------------------------------------------------------------- C15
\* C15: when a load fails, at the drafts query or at either row query, the
\* step that ends it raises the "Error loading draft" toast, and the load
\* has changed neither the message list nor the draft record of the view.
\* (A call of fetchDraft records in `wrote` which of the two it changed.)
C15_FailedLoadChangesNothing ==
    [][ \A c \in calls :
            (c.kind = "fetchDraft" /\ AnsweredNow(c) /\ event'.outcome = "failed")
            => /\ event'.toast = "Error loading draft"
               /\ messages' = messages
               /\ draft' = draft
               /\ c.wrote = {} ]_vars

\* ==================================================== the storage
\* The tables of src/unnamed/part_001 that hold a draft's history, and the
\* operations of the repository that send statements to them: the
\* generation handler (src/unnamed/part_002), Sidebar.handleDeleteDraft,
\* Brands.handleDelete and Feedbacks.deleteFeedback.  Every operation is a
\* sequence of single statements, each awaited; statements of other
\* operations run in between.  A statement acts on the rows that the row
\* level security of part_001 56-91 lets its client act on, or returns an
\* error and changes nothing; a statement that finds no such row is not an
\* error.  The browser's client is the signed-in user's, who owns every
\* stored row; the handler's client is anonymous.  A row that refers to a
\* draft can only be inserted while the draft exists (part_001 39, 48).
\* Columns that no statement of these operations reads are left out.
\* draft_versions is kept oldest row first: created_at (part_001 42) is
\* the time of the insert.

\* request.draft_id of a generation request: empty for a new draft
\* (part_002 55), else the draft the feedback is for.
RequestDraftIds == {"", "d1"}

\* gen_random_uuid() (part_001 25, 47) for the row that operation n inserts.
NewDraftId(n) == "draft-" \o ToString(n)

NewFeedbackId(n) == "feedback-" \o ToString(n)

\* The draft_versions rows of draft d, oldest first.
VersionsOf(rows, d) == SelectSeq(rows, LAMBDA r : r.draft_id = d)

\* The rows of a stored draft d1: revisions 1..v in the order they were
\* stored, current_version v, and k feedbacks.
StoredVersions(v) == [i \in 1 .. v |-> [draft_id |-> "d1", version |-> i]]

StoredFeedbacks(k) == { [id |-> "f" \o ToString(i), draft_id |-> "d1"] : i \in 1 .. k }

InitStorage ==
    /\ \/ /\ drafts = {}
          /\ draft_versions = <<>>
          /\ email_feedbacks = {}
       \/ \E v \in 1 .. MaxVersions, k \in 0 .. MaxFeedbacks :
             /\ drafts = {[id |-> "d1", current_version |-> v]}
             /\ draft_versions = StoredVersions(v)
             /\ email_feedbacks = StoredFeedbacks(k)
    /\ tasks = {}
    /\ nTasks = 0
    /\ response = NoResponse
    \* the route the Sidebar is rendered on (Sidebar.tsx 40): the one of a
    \* listed draft, or /chat/new; the Chat view takes no step here
    /\ draftData = Null
    /\ versions = <<>>
    /\ feedbacks = <<>>
    /\ pc = "idle"
    /\ dates = <<>>
    /\ messages = <<>>
    /\ draft_id \in {"new", "d1"}
    /\ location = draft_id
    /\ mounted = FALSE
    /\ effectPending = FALSE
    /\ UseStateInitial

Task(n, op, id, at) ==
    [n |-> n, op |-> op, draft_id |-> id, pc |-> at, newVersion |-> 0, removed |-> 0]

DraftExists(d) == \E r \in drafts : r.id = d

\* ------------------------------------------------ the generation handler
\* part_002 72, part_001 26: the user that the request names and that owns
\* every stored row.
Owner == "u1"

\* part_002 46-49: the handler creates its client with the project's anon
\* key and passes no Authorization header, so auth.uid() is NULL (here the
\* empty string) in every statement it sends.
HandlerUid == ""

\* part_001 49, 56-91: does the storage let the handler's statement act?
\* Row level security is enabled on the three tables (58-60).  drafts:
\* SELECT USING, INSERT WITH CHECK and UPDATE USING (auth.uid() = user_id)
\* (74-76).  draft_versions: INSERT WITH CHECK that the draft is one of
\* auth.uid() (83-85).  email_feedbacks: user_id is NOT NULL without a
\* default (49) and the handler's row has no user_id (part_002 131-135).
Accepts(statement) ==
    IF statement = "insertFeedback" THEN FALSE ELSE HandlerUid = Owner

\* part_002 39-59: a request arrives; without a draft_id it is for a new
\* draft, else for feedback on that draft.
Invoke ==
    \E d \in RequestDraftIds :
        /\ nTasks < MaxCalls
        /\ tasks' = tasks \cup
               {Task(nTasks + 1, "handler", d,
                     IF d = "" THEN "insertDraft" ELSE "selectDraft")}
        /\ nTasks' = nTasks + 1
        /\ response' = NoResponse
        /\ UNCHANGED <<drafts, draft_versions, email_feedbacks, viewVars>>

\* part_002 190-206: the catch block returns the error response.
ErrorResponse(t) ==
    /\ tasks' = tasks \ {t}
    /\ response' = Resp("handler", t.draft_id, FALSE, 0)
    /\ UNCHANGED <<drafts, draft_versions, email_feedbacks, nTasks, viewVars>>

\* part_002 175-188: the success response.
SuccessResponse(t) ==
    /\ tasks' = tasks \ {t}
    /\ response' = Resp("handler", t.draft_id, TRUE, 0)
    /\ UNCHANGED <<nTasks, viewVars>>

\* part_002 68-93: insert the drafts row, current_version 1; a refused
\* insert is an error (87-90).
InsertDraft(t) ==
    \/ ErrorResponse(t)
    \/ /\ Accepts("insertDraft")
       /\ drafts' = drafts \cup {[id |-> NewDraftId(t.n), current_version |-> 1]}
       /\ tasks' = (tasks \ {t}) \cup
              {[t EXCEPT !.draft_id = NewDraftId(t.n), !.pc = "insertFirstVersion"]}
       /\ response' = NoResponse
       /\ UNCHANGED <<draft_versions, email_feedbacks, nTasks, viewVars>>

\* part_002 95-106: insert version 1 of the new draft, then respond.
InsertFirstVersion(t) ==
    \/ ErrorResponse(t)
    \/ /\ Accepts("insertFirstVersion")
       /\ DraftExists(t.draft_id)
       /\ draft_versions' =
              Append(draft_versions, [draft_id |-> t.draft_id, version |-> 1])
       /\ SuccessResponse(t)
       /\ UNCHANGED <<drafts, email_feedbacks>>

\* part_002 115-126: read current_version; .single() is an error when the
\* select returns no row, the row being absent or hidden from the client.
\* newVersion = current_version + 1.
SelectDraft(t) ==
    \/ ErrorResponse(t)
    \/ \E r \in drafts :
          /\ Accepts("selectDraft")
          /\ r.id = t.draft_id
          /\ tasks' = (tasks \ {t}) \cup
                 {[t EXCEPT !.newVersion = r.current_version + 1,
                            !.pc = "insertFeedback"]}
          /\ response' = NoResponse
          /\ UNCHANGED <<drafts, draft_versions, email_feedbacks, nTasks,
                         viewVars>>

\* part_002 128-142: insert the feedback row; a refused insert is an
\* error (139-142).
InsertFeedback(t) ==
    \/ ErrorResponse(t)
    \/ /\ Accepts("insertFeedback")
       /\ DraftExists(t.draft_id)
       /\ email_feedbacks' = email_feedbacks \cup
              {[id |-> NewFeedbackId(t.n), draft_id |-> t.draft_id]}
       /\ tasks' = (tasks \ {t}) \cup {[t EXCEPT !.pc = "insertVersion"]}
       /\ response' = NoResponse
       /\ UNCHANGED <<drafts, draft_versions, nTasks, viewVars>>

\* part_002 147-159: insert the draft_versions row of newVersion.
InsertVersion(t) ==
    \/ ErrorResponse(t)
    \/ /\ Accepts("insertVersion")
       /\ DraftExists(t.draft_id)
       /\ draft_versions' =
              Append(draft_versions,
                     [draft_id |-> t.draft_id, version |-> t.newVersion])
       /\ tasks' = (tasks \ {t}) \cup {[t EXCEPT !.pc = "updateDraft"]}
       /\ response' = NoResponse
       /\ UNCHANGED <<drafts, email_feedbacks, nTasks, viewVars>>

\* part_002 161-171: set the draft's current_version to newVersion, then
\* respond.  An update that finds no row it may change is not an error.
UpdateDraft(t) ==
    \/ ErrorResponse(t)
    \/ /\ drafts' = { IF r.id = t.draft_id /\ Accepts("updateDraft")
                      THEN [r EXCEPT !.current_version = t.newVersion]
                      ELSE r : r \in drafts }
       /\ SuccessResponse(t)
       /\ UNCHANGED <<draft_versions, email_feedbacks>>

\* part_002 61-171: the next statement of an invocation under way.
HandlerStatement ==
    \E t \in tasks :
        /\ t.op = "handler"
        /\ IF t.pc = "insertDraft" THEN InsertDraft(t)
           ELSE IF t.pc = "insertFirstVersion" THEN InsertFirstVersion(t)
           ELSE IF t.pc = "selectDraft" THEN SelectDraft(t)
           ELSE IF t.pc = "insertFeedback" THEN InsertFeedback(t)
           ELSE IF t.pc = "insertVersion" THEN InsertVersion(t)
           ELSE UpdateDraft(t)

NextHandler ==
    \/ Invoke
    \/ HandlerStatement

SpecHandler == InitStorage /\ [][NextHandler]_vars

\* ---------------------------------------------- Sidebar.handleDeleteDraft
\* Sidebar.tsx 54-82: the drafts the Sidebar lists are those it fetched
\* when it was mounted; an entry stays listed while its draft goes from
\* the storage by another operation.
ListedDraftIds == {"d1"}

\* The invocation n of handleDeleteDraft for draft d, created by a render
\* of the Sidebar on route parameter shown (Sidebar.tsx 40, 172).
DeleteDraftTask(n, d, shown) ==
    [n |-> n, op |-> "handleDeleteDraft", draft_id |-> d, pc |-> "deleteVersions",
     removed |-> 0, shown |-> shown]

\* Sidebar.tsx 109-113: the delete control of a listed draft.
HandleDeleteDraft ==
    \E d \in ListedDraftIds :
        /\ nTasks < MaxCalls
        /\ tasks' = tasks \cup {DeleteDraftTask(nTasks + 1, d, draft_id)}
        /\ nTasks' = nTasks + 1
        /\ response' = NoResponse
        /\ UNCHANGED <<drafts, draft_versions, email_feedbacks, viewVars>>

\* Sidebar.tsx 120-123, 134-137, 149-152, 165-171: a statement failed;
\* the catch block raises the error toast and the operation ends.
DeleteDraftFailed(t) ==
    /\ tasks' = tasks \ {t}
    /\ response' = Resp("handleDeleteDraft", t.draft_id, FALSE, t.removed)
    /\ UNCHANGED <<drafts, draft_versions, email_feedbacks, nTasks, viewVars>>

\* draft_versions with a policy FOR DELETE like the one of drafts
\* (part_001 77): the statement removes every row of draft d.
DeleteFromDraftVersionsUnrestricted(rows, d) ==
    SelectSeq(rows, LAMBDA r : r.draft_id # d)

\* part_001 59, 80-85: draft_versions has row level security enabled and
\* policies FOR SELECT and FOR INSERT only, so the DELETE of Sidebar.tsx
\* 116-119 finds no row it may delete: it removes none and returns no
\* error.
DeleteFromDraftVersions(rows, d) == rows

\* Sidebar.tsx 115-123: delete the draft's draft_versions rows.
DeleteVersions ==
    \E t \in tasks :
        /\ t.op = "handleDeleteDraft" /\ t.pc = "deleteVersions"
        /\ \/ DeleteDraftFailed(t)
           \/ /\ draft_versions' = DeleteFromDraftVersions(draft_versions, t.draft_id)
              /\ tasks' = (tasks \ {t}) \cup
                     {[t EXCEPT !.removed = Len(draft_versions) - Len(draft_versions'),
                                !.pc = "deleteFeedbacks"]}
              /\ response' = NoResponse
              /\ UNCHANGED <<drafts, email_feedbacks, nTasks, viewVars>>

\* Sidebar.tsx 125-137: delete the draft's email_feedbacks rows.
DeleteFeedbacks ==
    \E t \in tasks :
        /\ t.op = "handleDeleteDraft" /\ t.pc = "deleteFeedbacks"
        /\ \/ DeleteDraftFailed(t)
           \/ /\ email_feedbacks' = { r \in email_feedbacks : r.draft_id # t.draft_id }
              /\ tasks' = (tasks \ {t}) \cup {[t EXCEPT !.pc = "deleteDraft"]}
              /\ response' = NoResponse
              /\ UNCHANGED <<drafts, draft_versions, nTasks, viewVars>>

\* Sidebar.tsx 139-164: delete the drafts row; rows that refer to it go
\* with it (ON DELETE CASCADE, part_001 39, 48).  When the deleted draft
\* is the one the Sidebar was rendered for, the handler navigates to
\* /chat/new (154-156).
DeleteDraft ==
    \E t \in tasks :
        /\ t.op = "handleDeleteDraft" /\ t.pc = "deleteDraft"
        /\ \/ DeleteDraftFailed(t)
           \/ /\ drafts' = { r \in drafts : r.id # t.draft_id }
              /\ draft_versions' =
                     SelectSeq(draft_versions, LAMBDA r : r.draft_id # t.draft_id)
              /\ email_feedbacks' = { r \in email_feedbacks : r.draft_id # t.draft_id }
              /\ tasks' = tasks \ {t}
              /\ response' = Resp("handleDeleteDraft", t.draft_id, TRUE,
                                   t.removed + Len(VersionsOf(draft_versions, t.draft_id)))
              /\ IF t.shown = t.draft_id THEN NavigateTo("new")
                                         ELSE UNCHANGED location
              /\ UNCHANGED <<nTasks, builderVars, messages, draft_id,
                             mounted, effectPending, brandVars, draft, loading,
                             isFirstTime, form, feedbackText, calls, nCalls, event>>

\* --------------------------------------------------- Brands.handleDelete
\* part_001 27: every draft has a brand; the drafts here are all of the
\* one brand b1 (request.brand_id, part_002 73).
BrandIds == {"b1"}

BrandOf(d) == "b1"

\* Profile.tsx 334-337: the delete control of a listed brand, confirmed.
HandleDelete ==
    \E b \in BrandIds :
        /\ nTasks < MaxCalls
        /\ tasks' = tasks \cup
               {[n |-> nTasks + 1, op |-> "Brands.handleDelete", brand_id |-> b]}
        /\ nTasks' = nTasks + 1
        /\ response' = NoResponse
        /\ UNCHANGED <<drafts, draft_versions, email_feedbacks, viewVars>>

\* Profile.tsx 339-360: delete the brands row.  The drafts of the brand go
\* with it (ON DELETE CASCADE, part_001 27), and with them their
\* draft_versions and email_feedbacks rows (39, 48).  On an error the
\* catch block raises the error toast and nothing has changed.
DeleteBrand ==
    \E t \in tasks :
        /\ t.op = "Brands.handleDelete"
        /\ \/ /\ response' = Resp("Brands.handleDelete", t.brand_id, FALSE, 0)
              /\ UNCHANGED <<drafts, draft_versions, email_feedbacks>>
           \/ /\ drafts' = { r \in drafts : BrandOf(r.id) # t.brand_id }
              /\ draft_versions' =
                     SelectSeq(draft_versions, LAMBDA r : BrandOf(r.draft_id) # t.brand_id)
              /\ email_feedbacks' =
                     { r \in email_feedbacks : BrandOf(r.draft_id) # t.brand_id }
              /\ response' = Resp("Brands.handleDelete", t.brand_id, TRUE,
                                   Len(draft_versions) - Len(draft_versions'))
        /\ tasks' = tasks \ {t}
        /\ UNCHANGED <<nTasks, viewVars>>

\* ------------------------------------------------ deleting a feedback
\* Feedbacks.tsx 49-76, Chat.tsx 169-173: the feedbacks a page lists are
\* those it fetched; an entry stays listed while its row goes from the
\* storage by another operation.
ListedFeedbackIds == { "f" \o ToString(i) : i \in 1 .. MaxFeedbacks }

FeedbackTask(n, op, feedbackId) == [n |-> n, op |-> op, feedback_id |-> feedbackId]

\* Feedbacks.tsx 84-88 with the rows of the feedback's draft deleted.
DeleteFeedbackRowsOfDraft(rows, feedbackId) ==
    { r \in rows : \A f \in rows : f.id = feedbackId => r.draft_id # f.draft_id }

\* Feedbacks.tsx 84-88: delete from email_feedbacks the row with this id
\* (all rows are the signed-in user's); no row with this id is not an
\* error.
DeleteFeedbackRow(rows, feedbackId) == { r \in rows : r.id # feedbackId }

\* Feedbacks.tsx 78-88: the delete control of a listed feedback, confirmed;
\* the statement is sent.
FeedbacksDeleteFeedback ==
    \E f \in ListedFeedbackIds :
        /\ nTasks < MaxCalls
        /\ tasks' = tasks \cup {FeedbackTask(nTasks + 1, "Feedbacks.deleteFeedback", f)}
        /\ nTasks' = nTasks + 1
        /\ response' = NoResponse
        /\ UNCHANGED <<drafts, draft_versions, email_feedbacks, viewVars>>

\* Feedbacks.tsx 84-105: the statement is carried out, or returns an
\* error; the toast tells which.
FeedbackDeleted ==
    \E t \in tasks, ok \in BOOLEAN :
        /\ t.op = "Feedbacks.deleteFeedback"
        /\ email_feedbacks' =
               (IF ok THEN DeleteFeedbackRow(email_feedbacks, t.feedback_id)
                      ELSE email_feedbacks)
        /\ tasks' = tasks \ {t}
        /\ response' = Resp("Feedbacks.deleteFeedback", t.feedback_id, ok, 0)
        /\ UNCHANGED <<drafts, draft_versions, nTasks, viewVars>>

\* Chat.tsx 388-390 sends DELETE /api/feedback/<id>; the endpoint is the
\* deletion interface that removes a single feedback by its identifier.
ApiDeleteFeedback ==
    \E f \in ListedFeedbackIds :
        /\ nTasks < MaxCalls
        /\ tasks' = tasks \cup {FeedbackTask(nTasks + 1, "DELETE /api/feedback", f)}
        /\ nTasks' = nTasks + 1
        /\ response' = NoResponse
        /\ UNCHANGED <<drafts, draft_versions, email_feedbacks, viewVars>>

ApiFeedbackDeleted ==
    \E t \in tasks, ok \in BOOLEAN :
        /\ t.op = "DELETE /api/feedback"
        /\ email_feedbacks' =
               (IF ok THEN { r \in email_feedbacks : r.id # t.feedback_id }
                      ELSE email_feedbacks)
        /\ tasks' = tasks \ {t}
        /\ response' = Resp("DELETE /api/feedback", t.feedback_id, ok, 0)
        /\ UNCHANGED <<drafts, draft_versions, nTasks, viewVars>>

NextStorage ==
    \/ NextHandler
    \/ HandleDeleteDraft
    \/ DeleteVersions
    \/ DeleteFeedbacks
    \/ DeleteDraft
    \/ HandleDelete
    \/ DeleteBrand
    \/ FeedbacksDeleteFeedback
    \/ FeedbackDeleted
    \/ ApiDeleteFeedback
    \/ ApiFeedbackDeleted

SpecStorage == InitStorage /\ [][NextStorage]_vars

\* ------------------------------------ what the handler does to the storage
\* Every step of a handler invocation leaves the three tables as they
\* are, and no invocation returns the success response.
HandlerStoresNothing ==
    [][ (\E t \in tasks \ tasks' : t.op = "handler")
            => /\ drafts' = drafts
               /\ draft_versions' = draft_versions
               /\ email_feedbacks' = email_feedbacks
               /\ ~ response'.ok ]_vars

\* ---------------------------------------------------------------- C19
\* C19: when Sidebar.handleDeleteDraft has ended, with success or with a
\* failure at any of its three statements, and it has removed revisions
\* of the draft, the draft is no longer in the storage.
C19_RevisionsGoOnlyWithDraft ==
    (response.op = "handleDeleteDraft" /\ response.removed > 0)
    => ~ DraftExists(response.id)

\* Sidebar.handleDeleteDraft has ended with success: the draft went, and
\* its revisions with it.
C19_Witness ==
    /\ response.op = "handleDeleteDraft"
    /\ response.ok
    /\ response.removed > 0
    /\ ~ DraftExists(response.id)
    /\ VersionsOf(draft_versions, response.id) = <<>>

\* ---------------------------------------------------------------- C20
\* C20: a step that deletes a feedback, from the Feedbacks page or through
\* the DELETE endpoint the Chat view calls, leaves the drafts rows (their
\* current_version) and the draft_versions rows unchanged; when it
\* succeeds it removes the one email_feedbacks row with the given
\* identifier and no other, and when it fails it removes none.
C20_FeedbackDeleteLeavesRevisions ==
    [][ response'.op \in {"Feedbacks.deleteFeedback", "DELETE /api/feedback"}
        => /\ drafts' = drafts
           /\ draft_versions' = draft_versions
           /\ email_feedbacks' \subseteq email_feedbacks
           /\ \A r \in email_feedbacks :
                  r \in email_feedbacks' <=> ~ (response'.ok /\ r.id = response'.id) ]_vars

\* Feedback f1 of draft d1 was deleted from the Feedbacks page: f2 is
\* still stored, and d1 has its two revisions and current_version 2.
C20_Witness ==
    /\ response = Resp("Feedbacks.deleteFeedback", "f1", TRUE, 0)
    /\ email_feedbacks = {[id |-> "f2", draft_id |-> "d1"]}
    /\ drafts = {[id |-> "d1", current_version |-> 2]}
    /\ Len(VersionsOf(draft_versions, "d1")) = 2

\* =====================================================================
\* The builder on rows that break the revision invariant
\* =====================================================================
\* The longest list of version rows handed to the builder when the revision
\* invariant is not assumed: three rows are the fewest whose windows overlap.
MaxUnorderedVersions == 3

\* The version numbers of n rows as the query returns them (ordered by
\* version ascending, Chat.tsx 165-168), duplicates included.
VersionNumbers(n) ==
    { vn \in [1 .. n -> 1 .. n] : \A i \in 1 .. n - 1 : vn[i] <= vn[i + 1] }

\* Every list of at most MaxUnorderedVersions version rows, with any
\* created_at and any ascending version numbers; the row ids are the
\* primary keys and differ.
UnorderedVersionLists ==
    UNION { { [i \in 1 .. n |-> [DraftVersion(i, ts[i]) EXCEPT !.version = vn[i]]] :
                ts \in [1 .. n -> Time], vn \in VersionNumbers(n) }
            : n \in 0 .. MaxUnorderedVersions }

\* The builder's inputs without the revision invariant: any version rows, at
\* most one feedback row.
InitUnordered ==
    /\ draftData \in { [user_input |-> u] : u \in UserInputs }
    /\ versions \in UnorderedVersionLists
    /\ feedbacks \in { fs \in FeedbackLists : Len(fs) <= 1 }
    /\ dates = <<>>
    /\ messages = <<>>
    /\ pc = "idle"
    /\ draft_id = "new"
    /\ location = draft_id
    /\ mounted = FALSE
    /\ effectPending = FALSE
    /\ UseStateInitial
    /\ StorageUntouched

SpecUnordered == InitUnordered /\ [][Next]_vars

\* The number of messages of the list with the given id.
Occurrences(list, id) == Cardinality({ k \in 1 .. Len(list) : list[k].id = id })

\* C21: whatever the version rows' timestamps and version numbers, the built
\* list holds every revision once, every annotation at most once, and no
\* two messages with the same id.
C21_EachOnceDistinctIds ==
    pc = "built" =>
        /\ \A i \in 1 .. Len(versions) :
               Occurrences(messages, "version-" \o versions[i].id) = 1
        /\ \A j \in 1 .. Len(feedbacks) :
               Occurrences(messages, "feedback-" \o feedbacks[j].id) <= 1
        /\ \A k, l \in 1 .. Len(messages) :
               messages[k].id = messages[l].id => k = l

\* ---------------------------------------------------------------- C22
\* The message derives from a stored annotation whose validity flag is false.
DerivesFromRejected(message) ==
    \E d \in DraftIds : \E j \in 1 .. Len(LoadedFeedbacks(d)) :
        /\ ~ LoadedFeedbacks(d)[j].is_valid
        /\ "feedbackId" \in DOMAIN message
        /\ message.feedbackId = LoadedFeedbacks(d)[j].id

\* C22: the delete button is offered for exactly the messages that derive
\* from an annotation whose validity flag is false, never for the original
\* request, a revision, a valid annotation or an optimistically appended
\* message.
C22_DeleteOfferedExactlyForRejected ==
    \A p \in 1 .. Len(messages) :
        CanDelete(messages[p]) <=> DerivesFromRejected(messages[p])

\* A loaded transcript with a rejected and a valid annotation, followed by
\* an optimistically appended feedback.
C22_Witness ==
    /\ \E p \in 1 .. Len(messages) : CanDelete(messages[p])
    /\ \E p \in 1 .. Len(messages) :
           "feedbackId" \in DOMAIN messages[p] /\ ~ CanDelete(messages[p])
    /\ \E c \in calls : c.kind = "submitFeedback"
    /\ \E p \in 1 .. Len(messages) :
           \E text \in FeedbackTexts, date \in BrowserTime :
               messages[p] = UserFeedbackMessage(text, date)

\* ---------------------------------------------------------------- C23
\* An awaited network call of fetchDraft, createFirstDraft or submitFeedback
\* returns, with data or with an error, and the handler runs on.
Answered ==
    \/ DraftAnswered
    \/ VersionsAnswer
    \/ FeedbacksAnswer
    \/ CreateAnswered
    \/ SubmitAnswered

\* The view with every awaited network call of the three handlers returning
\* in the end.
SpecAnswered == Spec /\ WF_vars(Answered)

\* The handlers that set the loading flag.
LoadingHandlers == {"fetchDraft", "createFirstDraft", "submitFeedback"}

\* Invocation n of one of the loading handlers awaits its network call.
Awaiting(n) == \E c \in calls : c.n = n /\ c.kind \in LoadingHandlers

\* C23: every invocation of fetchDraft, createFirstDraft or submitFeedback
\* whose network call returns, with data or with an error, is followed by a
\* state in which the invocation has ended and the loading flag is false.
C23_LoadingEventuallyReset ==
    \A n \in 1 .. MaxCalls :
        Awaiting(n) ~> (~ Awaiting(n) /\ ~ loading)

\* A handler has just ended in its catch block and the loading flag is
\* false again.
C23_Witness ==
    /\ event.handler \in LoadingHandlers
    /\ event.outcome = "failed"
    /\ ~ loading
    /\ calls = {}
    /\ nCalls = MaxCalls

\* ---------------------------------------------------------------- C24
\* The view shows draft d: its draft record and a transcript built from its
\* rows.
ShowsDraft(d) == draft = DraftRow(d) /\ messages \in FullTranscripts(d)

\* C24: when a load has just completed, no other call is in flight and the
\* route is a draft (the view is rendered for it, its effect has run, and
\* no change of route is under way), the draft record and the message list
\* shown are those of the draft of the route, whatever loads were started
\* before and in whatever order they completed.
C24_ShowsDraftOfRoute ==
    (/\ event = Ev("fetchDraft", "loaded", "")
     /\ calls = {}
     /\ draft_id \in DraftIds
     /\ location = draft_id
     /\ ~ effectPending)
        => ShowsDraft(draft_id)

\* ---------------------------------------------------------------- C25
\* C25: whenever the route is a draft, rendered with its effect run and no
\* change of route under way, and the load of that draft has just
\* completed successfully with no other call in flight, the view is in
\* transcript mode: isFirstTime is false, and the feedback box is rendered.
C25_TranscriptModeAfterLoad ==
    (/\ event = Ev("fetchDraft", "loaded", "")
     /\ calls = {}
     /\ draft_id \in DraftIds
     /\ location = draft_id
     /\ ~ effectPending
     /\ ShowsDraft(draft_id))
        => (~ isFirstTime /\ InputAreaShown)

\* =====================================================================
\* The loaded conversation view under clicks and key presses
\* =====================================================================
\* The view after the load of /chat/d has completed (Chat.tsx 143-234): the
\* draft record and the built transcript are shown, nothing is in flight.
\* The count of invocations starts again from here.
InitLoaded ==
    /\ draftData = Null
    /\ versions = <<>>
    /\ feedbacks = <<>>
    /\ pc = "idle"
    /\ draft_id \in DraftIds
    /\ location = draft_id
    /\ mounted = TRUE
    /\ effectPending = FALSE
    /\ brands = <<>>
    /\ brandsCalls = 0
    /\ draft = DraftRow(draft_id)
    /\ dates = <<>>
    /\ messages \in FullTranscripts(draft_id)
    /\ loading = FALSE
    /\ isFirstTime = FALSE
    /\ form = EmptyForm
    /\ feedbackText = ""
    /\ calls = {}
    /\ nCalls = 0
    /\ event = Ev("fetchDraft", "loaded", "")
    /\ StorageUntouched

\* Typing into the feedback box (Chat.tsx 676-678), the Send button and
\* Cmd/Ctrl+Enter (680-690), the delete button of a message (657-658), and
\* the responses to the requests they send.
NextLoaded ==
    \/ TypeFeedback
    \/ SubmitFeedback
    \/ SubmitAnswered
    \/ DeleteFeedback
    \/ DeleteAnswered

SpecLoaded == InitLoaded /\ [][NextLoaded]_vars

\* ---------------------------------------------------------------- C26
\* The generation requests of the view that await their response.
GenerationRequests ==
    { c \in calls : c.kind \in {"createFirstDraft", "submitFeedback"} }

\* C26: at most one generation request of the view is in flight, and the
\* loading flag is true whenever one is in flight.
C26_OneGenerationUnderLoading ==
    /\ Cardinality(GenerationRequests) <= 1
    /\ GenerationRequests # {} => loading

\* =====================================================================
\* A feedback cycle on a loaded transcript, and the reload
\* =====================================================================
\* The view after the load of /chat/d1 has completed (Chat.tsx 143-234) on
\* rows as the queries of lines 163-174 return them: at least one revision,
\* the revisions well formed and the feedbacks ordered by created_at.  The
\* draft record and the transcript built of the rows are shown, nothing is
\* in flight.
InitCycle ==
    /\ draftData \in { [user_input |-> u] : u \in UserInputs }
    /\ versions \in VersionLists
    /\ Len(versions) >= 1
    /\ WellFormed(versions)
    /\ feedbacks \in FeedbackLists
    /\ OrderedByCreatedAt(feedbacks)
    /\ dates \in ClockReads(ReadsOf(versions, feedbacks), ClockTime)
    /\ messages = BuildMessageHistory(draftData, versions, feedbacks, dates)
    /\ pc = "built"
    /\ draft_id = "d1"
    /\ location = draft_id
    /\ mounted = TRUE
    /\ effectPending = FALSE
    /\ brands = <<>>
    /\ brandsCalls = 0
    /\ draft = [id |-> "d1", user_input |-> draftData.user_input]
    /\ loading = FALSE
    /\ isFirstTime = FALSE
    /\ form = EmptyForm
    /\ feedbackText = ""
    /\ calls = {}
    /\ nCalls = 0
    /\ event = Ev("fetchDraft", "loaded", "")
    /\ StorageUntouched

\* Typing into the feedback box (Chat.tsx 676-678), the Send button and
\* Cmd/Ctrl+Enter (680-690), and the response to the request they send.
NextCycle ==
    \/ TypeFeedback
    \/ SubmitFeedback
    \/ SubmitAnswered

SpecCycle == InitCycle /\ [][NextCycle]_vars

\* The (role, text) pairs of a message list.
RoleText(list) == [k \in 1 .. Len(list) |-> <<list[k].type, list[k].content>>]

\* The instants the rows stored by the cycle can carry.
CycleTime == 0 .. MaxTime + 2

\* The instants tf of the feedback and tv of the new revision: the feedback
\* is stored before the revision, and both later than every row stored
\* before the cycle.
CycleInstants ==
    { p \in CycleTime \X CycleTime :
        /\ \A i \in 1 .. Len(versions) : versions[i].created_at < p[1]
        /\ \A j \in 1 .. Len(feedbacks) : feedbacks[j].created_at < p[1]
        /\ p[1] < p[2] }

\* The feedbacks rows after the cycle: the accepted feedback with the text
\* the user sent is stored at instant tf.
FeedbacksAfterCycle(text, tf) ==
    Append(feedbacks,
           [id |-> "f" \o ToString(Len(feedbacks) + 1), feedback_text |-> text,
            is_valid |-> TRUE, created_at |-> tf])

\* The revisions after the cycle: the next revision, with the content the
\* view was answered, is stored at instant tv.
VersionsAfterCycle(content, tv) ==
    Append(versions,
           [DraftVersion(Len(versions) + 1, tv) EXCEPT !.content = content])

\* The one feedback cycle of the view has been answered with success: the
\* list ends with the user's feedback and the assistant's answer.
CycleDone ==
    /\ event = Ev("submitFeedback", "answered", "")
    /\ nCalls = 1
    /\ Len(messages) >= 2

\* C27: after a successful feedback cycle on a loaded draft the list kept by
\* the view has the same (role, text) pairs as the transcript the builder
\* makes on reload of the stored rows, which are the rows of the load, the
\* feedback and then the new revision, whatever the clock then reads.
C27_OptimisticEqualsReload ==
    CycleDone =>
        \A p \in CycleInstants :
            LET fs == FeedbacksAfterCycle(messages[Len(messages) - 1].content, p[1])
                vs == VersionsAfterCycle(messages[Len(messages)].content, p[2])
            IN  \A ds \in ClockReads(ReadsOf(vs, fs), ClockTime) :
                    RoleText(messages) =
                        RoleText(BuildMessageHistory(draftData, vs, fs, ds))

\* ---------------------------------------------------------------- C29
\* C29: the step in which the deletion call of Chat.deleteFeedback fails
\* leaves the message list as it was and raises the error notification,
\* and so does the step that sends the call leave the list as it was: the
\* message is removed only by the step in which the call has succeeded.
C29_FailedDeleteKeepsList ==
    [][ \A c \in calls \cup calls' :
            c.kind = "deleteFeedback"
            => /\ StartedNow(c) => messages' = messages
               /\ (AnsweredNow(c) /\ event'.outcome # "deleted")
                  => /\ messages' = messages
                     /\ event' = Ev("deleteFeedback", "failed",
                                    "Error deleting feedback") ]_vars

\* The deletion of the rejected feedback of d1 has failed: the error is
\* raised and the feedback's message is still in the loaded transcript.
C29_Witness ==
    /\ event = Ev("deleteFeedback", "failed", "Error deleting feedback")
    /\ Len(messages) = 5
    /\ \E p \in 1 .. Len(messages) : RefersTo(messages[p], "d1-f1")

\* =====================================================================
\* The view with its handlers called on any input
\* =====================================================================
\* createFirstDraft is called with the creation form in any state, complete
\* or not, whether or not the Generate button is enabled.
CallCreateFirstDraft ==
    \E f \in Forms :
        /\ mounted /\ isFirstTime
        /\ CanStart
        /\ CreateFirstDraftCalled(f)

\* The texts the feedback box holds when submitFeedback is called: those
\* the user types, and a blank one.
CalledTexts == FeedbackTexts \cup {"  "}

\* submitFeedback is called with any text in the feedback box, with or
\* without a loaded draft.
CallSubmitFeedback ==
    \E text \in CalledTexts :
        /\ mounted
        /\ CanStart
        /\ SubmitFeedbackCalled(text)

NextCalled ==
    \/ Mount
    \/ OpenRoute
    \/ RenderRoute
    \/ RouteEffect
    \/ BrandsAnswered
    \/ DraftAnswered
    \/ VersionsAnswer
    \/ FeedbacksAnswer
    \/ FillForm
    \/ CallCreateFirstDraft
    \/ CreateAnswered
    \/ TypeFeedback
    \/ CallSubmitFeedback
    \/ SubmitAnswered
    \/ DeleteFeedback
    \/ DeleteAnswered

SpecCalled == InitChat /\ [][NextCalled]_vars

\* ---------------------------------------------------------------- C30
\* The step sends no request and leaves the list and the loading flag alone.
NoOpOnTranscript ==
    /\ calls' = calls
    /\ nCalls' = nCalls
    /\ messages' = messages
    /\ loading' = loading

\* C30: a call of createFirstDraft with an incomplete form (no brand, no
\* email type or blank user input), and a call of submitFeedback with blank
\* text or without a loaded draft, sends no request and leaves the message
\* list and the loading flag unchanged; a step of either handler that does
\* send a request was called with a complete form, or with a loaded draft
\* and the non-blank text it appends.
C30_InvalidSubmissionIsNoOp ==
    [][ /\ (event'.handler = "createFirstDraft"
            /\ event'.outcome \in {"sent", "returned"})
           => /\ ~ FormComplete(form') => NoOpOnTranscript
              /\ event'.outcome = "returned" => NoOpOnTranscript
        /\ (event'.handler = "submitFeedback"
            /\ event'.outcome \in {"sent", "returned"})
           => /\ draft = Null => NoOpOnTranscript
              /\ event'.outcome = "returned" => NoOpOnTranscript
              /\ event'.outcome = "sent"
                 => /\ messages' # <<>>
                    /\ Trim(messages'[Len(messages')].content) # "" ]_vars

\* createFirstDraft has just returned on an incomplete form, after
\* submitFeedback returned on blank text, and no request was ever sent by
\* either.
C30_Witness ==
    /\ event = Ev("createFirstDraft", "returned", "Missing information")
    /\ ~ FormComplete(form)
    /\ feedbackText = "  "
    /\ \A c \in calls : c.kind = "fetchDraft"
    /\ ~ loading

====
